---- MODULE Spec2Model ----
(***************************************************************************)
(* Contact book assistant (task1.py / task2.py): validated fields, Record, *)
(* AddressBook, the birthday-window query and the two command loops.       *)
(*                                                                         *)
(* A Python str is modelled as a sequence of characters, one TLA+ string   *)
(* per character.  The character "sup2" stands for U+00B2 (SUPERSCRIPT     *)
(* TWO), a character for which str.isdigit() is True and str.isdecimal()   *)
(* is False.  None is the empty tuple and a present optional value x is    *)
(* the one-element tuple <<x>>.                                            *)
(***************************************************************************)
EXTENDS Integers, Sequences, FiniteSets, TLC

VARIABLES
    phones,     \* Record.phones of the record under test (values of the Phone objects)
    pre,        \* the state the last call started from
    call,       \* the last call: a record with field op and its arguments
    raised,     \* the exception the last call ended with, "" when it returned
    ret,        \* what the last call returned
    data,       \* AddressBook.data: name -> id of the record
    pool,       \* the Record objects constructed so far, in order; a record's id is its position
    last,       \* history: name -> id of the record last passed to add_record, None once deleted
    now,        \* datetime.today(): [date, tod]
    variant,    \* which main() runs: "task1" (Bot) or "task2" (add_contact ...)
    pc,         \* the command loop: "read", "exited", "crashed"
    nread,      \* lines read by input()
    printed     \* replies printed

vars == <<phones, pre, call, raised, ret, data, pool, last, now, variant, pc, nread, printed>>

None == <<>>
Some(x) == <<x>>

----------------------------------------------------------------------------
(* Bounds *)

\* longest phone list the Record specification grows
MaxPhones == 3

----------------------------------------------------------------------------
(* Strings *)

AsciiDigits == {"0", "1", "2", "3", "4", "5", "6", "7", "8", "9"}

\* U+00B2
Sup2 == "sup2"

Whitespace == {" "}

\* c * n
RECURSIVE Rep(_, _)
Rep(c, n) == IF n <= 0 THEN <<>> ELSE <<c>> \o Rep(c, n - 1)

\* the characters str.isdigit() accepts, among those the model draws
IsDigitChar(c) == c \in AsciiDigits \cup {Sup2}

\* str.isdigit(): every character is a digit and there is at least one
isdigit(s) == Len(s) > 0 /\ \A i \in 1..Len(s) : IsDigitChar(s[i])

\* Phone._validate_phone
validate_phone(value) == isdigit(value) /\ Len(value) = 10

P1 == <<"1", "2", "3", "4", "5", "6", "7", "8", "9", "0">>
P2 == Rep("5", 10)
P3 == <<"1", "1", "1", "2", "2", "2", "3", "3", "3", "3">>
PSup == Rep(Sup2, 10)
PShort == SubSeq(P1, 1, 9)
PLong == P1 \o <<"1">>
PAlpha == SubSeq(P1, 1, 9) \o <<"a">>
PPlus == <<"+">> \o SubSeq(P1, 1, 9)
PEmpty == <<>>

\* the strings passed as phone arguments
PhoneArgs == {P1, P2, P3, PSup, PShort, PLong, PAlpha, PPlus, PEmpty}

ValueError == "ValueError"
NoError == ""

----------------------------------------------------------------------------
(* Record: the phone list *)

\* Record.find_phone: the position of the first phone with that value, 0 for None
find_phone(ps, phone) ==
    IF \E i \in 1..Len(ps) : ps[i] = phone
    THEN CHOOSE i \in 1..Len(ps) : ps[i] = phone /\ \A j \in 1..(i - 1) : ps[j] /= phone
    ELSE 0

\* list.remove of the object at position i
RemoveAt(ps, i) == SubSeq(ps, 1, i - 1) \o SubSeq(ps, i + 1, Len(ps))

\* Record.add_phone: Phone(phone) raises before append
add_phone(ps, phone) ==
    IF validate_phone(phone)
    THEN [phones |-> Append(ps, phone), raised |-> NoError]
    ELSE [phones |-> ps, raised |-> ValueError]

\* Record.remove_phone
remove_phone(ps, phone) ==
    LET i == find_phone(ps, phone)
    IN  IF i /= 0 THEN RemoveAt(ps, i) ELSE ps

\* edit_phone without the removal of old_phone
edit_phone_keeps_old(ps, old_phone, new_phone) ==
    IF find_phone(ps, old_phone) /= 0
    THEN add_phone(ps, new_phone)
    ELSE [phones |-> ps, raised |-> NoError]

\* Record.edit_phone: remove, then add_phone
edit_phone(ps, old_phone, new_phone) ==
    LET i == find_phone(ps, old_phone)
    IN  IF i /= 0
        THEN add_phone(RemoveAt(ps, i), new_phone)
        ELSE [phones |-> ps, raised |-> NoError]

----------------------------------------------------------------------------
(* Specification of one Record's phone list *)

NoCall == [op |-> "init", a |-> <<>>, b |-> <<>>]

EmptyBook == [n \in {} |-> None]

John == <<"J", "o", "h", "n">>
john == <<"j", "o", "h", "n">>
Jane == <<"J", "a", "n", "e">>
Blank == <<" ">>

\* the strings passed as names
NameArgs == {<<>>, Blank, John, john, Jane}

NoHistory == [n \in NameArgs |-> None]

Midnight == 0

\* 10.02.2024 00:00
Epoch == [date |-> [year |-> 2024, month |-> 2, day |-> 10], tod |-> Midnight]

\* what a call starts from
Snapshot == [phones |-> phones, data |-> data, pool |-> pool]

InitRecord ==
    /\ phones = <<>>
    /\ pre = [phones |-> <<>>, data |-> EmptyBook, pool |-> <<>>]
    /\ call = NoCall
    /\ raised = NoError
    /\ ret = None
    /\ data = EmptyBook
    /\ pool = <<>>
    /\ last = NoHistory
    /\ now = Epoch
    /\ variant = "none"
    /\ pc = "none"
    /\ nread = 0
    /\ printed = 0

RecAddPhone(phone) ==
    /\ Len(phones) < MaxPhones
    /\ LET r == add_phone(phones, phone)
       IN  /\ phones' = r.phones
           /\ raised' = r.raised
    /\ pre' = Snapshot
    /\ call' = [op |-> "add_phone", a |-> phone, b |-> <<>>]
    /\ ret' = None
    /\ UNCHANGED <<data, pool, last, now, variant, pc, nread, printed>>

RecRemovePhone(phone) ==
    /\ phones' = remove_phone(phones, phone)
    /\ raised' = NoError
    /\ pre' = Snapshot
    /\ call' = [op |-> "remove_phone", a |-> phone, b |-> <<>>]
    /\ ret' = None
    /\ UNCHANGED <<data, pool, last, now, variant, pc, nread, printed>>

RecEditPhone(old_phone, new_phone) ==
    /\ LET r == edit_phone(phones, old_phone, new_phone)
       IN  /\ phones' = r.phones
           /\ raised' = r.raised
    /\ pre' = Snapshot
    /\ call' = [op |-> "edit_phone", a |-> old_phone, b |-> new_phone]
    /\ ret' = None
    /\ UNCHANGED <<data, pool, last, now, variant, pc, nread, printed>>

RecFindPhone(phone) ==
    /\ ret' = (IF find_phone(phones, phone) /= 0 THEN Some(phone) ELSE None)
    /\ raised' = NoError
    /\ pre' = Snapshot
    /\ call' = [op |-> "find_phone", a |-> phone, b |-> <<>>]
    /\ UNCHANGED <<phones, data, pool, last, now, variant, pc, nread, printed>>

NextRecord ==
    \/ \E phone \in PhoneArgs : RecAddPhone(phone)
    \/ \E phone \in PhoneArgs : RecRemovePhone(phone)
    \/ \E old_phone \in PhoneArgs, new_phone \in PhoneArgs : RecEditPhone(old_phone, new_phone)
    \/ \E phone \in PhoneArgs : RecFindPhone(phone)

SpecRecord == InitRecord /\ [][NextRecord]_vars

----------------------------------------------------------------------------
(* Claims about Record *)

\* "exactly 10 decimal digits"
TenDecimalDigits(s) == Len(s) = 10 /\ \A i \in 1..Len(s) : s[i] \in AsciiDigits

Count(ps, v) == Cardinality({i \in 1..Len(ps) : ps[i] = v})

EditOfPresent == call.op = "edit_phone" /\ find_phone(pre.phones, call.a) /= 0

\* C1: an edit_phone(old, new) with old present and new not 10 decimal digits
\* fails with a validation error and leaves the phone list exactly as it was.
C1_EditAllOrNothing ==
    (EditOfPresent /\ ~TenDecimalDigits(call.b))
        => (raised = ValueError /\ phones = pre.phones)

\* C2: after edit_phone(old, new) with old present and new valid, find_phone(old)
\* is absent, find_phone(new) is present and the number of phones is unchanged.
C2_EditReplaces ==
    (EditOfPresent /\ TenDecimalDigits(call.b))
        => /\ find_phone(phones, call.a) = 0
           /\ find_phone(phones, call.b) /= 0
           /\ Len(phones) = Len(pre.phones)

\* C2 (amended): after edit_phone(old, new) with old present and new valid,
\* find_phone(new) is present, the number of phones is unchanged, and
\* find_phone(old) is absent exactly when old occurred once and new /= old.
C2_EditReplacesOne ==
    (EditOfPresent /\ TenDecimalDigits(call.b))
        => /\ raised = NoError
           /\ find_phone(phones, call.b) /= 0
           /\ Len(phones) = Len(pre.phones)
           /\ (find_phone(phones, call.a) = 0
                 <=> (Count(pre.phones, call.a) = 1 /\ call.b /= call.a))

C2_Witness ==
    /\ EditOfPresent /\ TenDecimalDigits(call.b)
    /\ Count(pre.phones, call.a) = 2
    /\ Len(pre.phones) = 3
    /\ call.b /= call.a

\* C3: a successful edit_phone(old, new) puts new at the position old had and
\* leaves every other phone at its position.
C3_EditKeepsOrder ==
    (EditOfPresent /\ raised = NoError)
        => phones = [pre.phones EXCEPT ![find_phone(pre.phones, call.a)] = call.b]

\* C7: every stored phone is 10 decimal digits; add_phone(s) fails and leaves the
\* list unchanged when s is not 10 decimal digits, and appends s when it is.
C7_PhoneInvariant ==
    /\ \A i \in 1..Len(phones) : TenDecimalDigits(phones[i])
    /\ call.op = "add_phone" =>
          IF TenDecimalDigits(call.a)
          THEN raised = NoError /\ phones = Append(pre.phones, call.a)
          ELSE raised = ValueError /\ phones = pre.phones

----------------------------------------------------------------------------
(* Name, Record construction and AddressBook *)

\* most Record objects the AddressBook specification constructs
MaxRecords == 2

\* most phones the AddressBook specification gives one record
MaxBookPhones == 1

\* a Name that validates nothing
NameRejects_nothing(value) == FALSE

\* Name.__init__: "if not value" is true of the empty str only
NameRejects(value) == Len(value) = 0

\* Record.__init__
NewRecord(name) == [name |-> name, phones |-> <<>>, birthday |-> None]

\* add_record that keeps the entry a name already has
add_record_setdefault(d, name, id) == IF name \in DOMAIN d THEN d ELSE d @@ (name :> id)

\* AddressBook.add_record: self.data[record.name.value] = record
add_record(d, name, id) == [n \in DOMAIN d \cup {name} |-> IF n = name THEN id ELSE d[n]]

\* AddressBook.find: self.data.get(name, None)
find(d, name) == IF name \in DOMAIN d THEN Some(d[name]) ELSE None

\* AddressBook.delete
delete(d, name) == IF name \in DOMAIN d THEN [n \in DOMAIN d \ {name} |-> d[n]] ELSE d

InitBook ==
    /\ phones = <<>>
    /\ pre = [phones |-> <<>>, data |-> EmptyBook, pool |-> <<>>]
    /\ call = NoCall
    /\ raised = NoError
    /\ ret = None
    /\ data = EmptyBook
    /\ pool = <<>>
    /\ last = NoHistory
    /\ now = Epoch
    /\ variant = "none"
    /\ pc = "none"
    /\ nread = 0
    /\ printed = 0

\* Record(name)
BookNewRecord(name) ==
    /\ Len(pool) < MaxRecords
    /\ IF NameRejects(name)
       THEN raised' = ValueError /\ ret' = None /\ pool' = pool
       ELSE raised' = NoError /\ ret' = Some(Len(pool) + 1) /\ pool' = Append(pool, NewRecord(name))
    /\ pre' = Snapshot
    /\ call' = [op |-> "Record", a |-> name, b |-> <<>>]
    /\ UNCHANGED <<phones, data, last, now, variant, pc, nread, printed>>

\* record.add_phone(phone) on a constructed record, in the book or not
BookRecordAddPhone(id, phone) ==
    /\ Len(pool[id].phones) < MaxBookPhones
    /\ LET r == add_phone(pool[id].phones, phone)
       IN  /\ pool' = [pool EXCEPT ![id].phones = r.phones]
           /\ raised' = r.raised
    /\ ret' = None
    /\ pre' = Snapshot
    /\ call' = [op |-> "record.add_phone", a |-> phone, b |-> <<id>>]
    /\ UNCHANGED <<phones, data, last, now, variant, pc, nread, printed>>

\* book.add_record(record)
BookAddRecord(id) ==
    /\ data' = add_record(data, pool[id].name, id)
    /\ last' = [last EXCEPT ![pool[id].name] = Some(id)]
    /\ raised' = NoError
    /\ ret' = None
    /\ pre' = Snapshot
    /\ call' = [op |-> "add_record", a |-> pool[id].name, b |-> <<id>>]
    /\ UNCHANGED <<phones, pool, now, variant, pc, nread, printed>>

\* book.find(name)
BookFind(name) ==
    /\ ret' = find(data, name)
    /\ raised' = NoError
    /\ pre' = Snapshot
    /\ call' = [op |-> "find", a |-> name, b |-> <<>>]
    /\ UNCHANGED <<phones, data, pool, last, now, variant, pc, nread, printed>>

\* book.delete(name)
BookDelete(name) ==
    /\ data' = delete(data, name)
    /\ last' = [last EXCEPT ![name] = None]
    /\ raised' = NoError
    /\ ret' = None
    /\ pre' = Snapshot
    /\ call' = [op |-> "delete", a |-> name, b |-> <<>>]
    /\ UNCHANGED <<phones, pool, now, variant, pc, nread, printed>>

NextBook ==
    \/ \E name \in NameArgs : BookNewRecord(name)
    \/ \E id \in 1..Len(pool), phone \in {P1, PShort} : BookRecordAddPhone(id, phone)
    \/ \E id \in 1..Len(pool) : BookAddRecord(id)
    \/ \E name \in NameArgs : BookFind(name)
    \/ \E name \in NameArgs : BookDelete(name)

SpecBook == InitBook /\ [][NextBook]_vars

----------------------------------------------------------------------------
(* Claims about AddressBook and Name *)

\* C6: find(name) is the record last passed to add_record under exactly that
\* name and not deleted since, None otherwise; add_record replaces the entry of
\* its name with the very record passed, without merging; add_record
\* and delete leave every other entry unchanged; delete of an absent name and
\* every find leave the book unchanged.
C6_BookIsLastAdded ==
    /\ \A n \in NameArgs : find(data, n) = last[n]
    /\ call.op = "find" => (ret = last[call.a] /\ data = pre.data)
    /\ call.op = "add_record" =>
          /\ find(data, call.a) = call.b
          /\ pool[call.b[1]] = pre.pool[call.b[1]]
          /\ \A n \in NameArgs \ {call.a} : find(data, n) = find(pre.data, n)
    /\ call.op = "delete" =>
          /\ find(data, call.a) = None
          /\ \A n \in NameArgs \ {call.a} : find(data, n) = find(pre.data, n)
          /\ (find(pre.data, call.a) = None => data = pre.data)

\* a delete of a name whose record had been replaced by a second record of the
\* same name, the first one holding a phone
C6_Witness ==
    /\ call.op = "delete" /\ call.a = John
    /\ find(pre.data, John) = Some(2)
    /\ pool[1].name = John /\ pool[1].phones = <<P1>>
    /\ pool[2].phones = <<>>
    /\ find(data, John) = None

IsBlank(s) == \A i \in 1..Len(s) : s[i] \in Whitespace

\* C8: Record(name) fails with a validation error for every empty and every
\* whitespace-only name, so no record with an empty or blank name exists or is
\* stored in the book.
C8_NoBlankName ==
    /\ (call.op = "Record" /\ IsBlank(call.a)) => (raised = ValueError /\ pool = pre.pool)
    /\ \A id \in 1..Len(pool) : ~IsBlank(pool[id].name)
    /\ \A n \in DOMAIN data : ~IsBlank(n)

\* C8 (amended): Record(name) fails with a validation error for every empty
\* name (a whitespace-only name is accepted), so no record with an empty
\* name exists or is stored in the book.
C8_NoEmptyName ==
    /\ (call.op = "Record" /\ call.a = <<>>) => (raised = ValueError /\ pool = pre.pool)
    /\ \A id \in 1..Len(pool) : pool[id].name /= <<>>
    /\ \A n \in DOMAIN data : n /= <<>>

C8_Witness ==
    /\ call.op = "Record" /\ call.a = <<>> /\ raised = ValueError
    /\ Len(pool) > 0
    /\ DOMAIN data /= {}

----------------------------------------------------------------------------
(* Dates: datetime, timedelta, Birthday *)

\* moments of one day the model tells apart; moment 0 is 00:00:00.000000
TicksPerDay == 2

\* the years datetime.today() is drawn from: FirstYear .. FirstYear + YearSpan - 1
FirstYear == 2023
YearSpan == 2

\* datetime.timedelta: OverflowError beyond this many days
MaxTimedeltaDays == 999999999

\* datetime.MAXYEAR
MAXYEAR == 9999

IsLeap(y) == (y % 4 = 0 /\ y % 100 /= 0) \/ y % 400 = 0

DaysInMonth(y, m) ==
    IF m = 2 THEN (IF IsLeap(y) THEN 29 ELSE 28)
    ELSE IF m \in {4, 6, 9, 11} THEN 30 ELSE 31

RECURSIVE DaysBeforeMonth(_, _)
DaysBeforeMonth(y, m) == IF m <= 1 THEN 0 ELSE DaysBeforeMonth(y, m - 1) + DaysInMonth(y, m - 1)

DaysBeforeYear(y) == (y - 1) * 365 + ((y - 1) \div 4) - ((y - 1) \div 100) + ((y - 1) \div 400)

\* date.toordinal()
ymd2ord(date) == DaysBeforeYear(date.year) + DaysBeforeMonth(date.year, date.month) + date.day

IsDate(y, m, d) == y \in 1..MAXYEAR /\ m \in 1..12 /\ d \in 1..DaysInMonth(y, m)

\* a datetime as a count of moments, for comparison and subtraction
Timestamp(dt) == ymd2ord(dt.date) * TicksPerDay + dt.tod

\* datetime.replace(year=y): None stands for the ValueError of 29 February in a common year
replace_year(dt, y) ==
    IF IsDate(y, dt.date.month, dt.date.day)
    THEN Some([dt EXCEPT !.date.year = y])
    ELSE None

DigitVal(c) == CHOOSE n \in 0..9 : <<"0", "1", "2", "3", "4", "5", "6", "7", "8", "9">>[n + 1] = c

RECURSIVE ToInt(_)
ToInt(s) == IF Len(s) = 0 THEN 0 ELSE ToInt(SubSeq(s, 1, Len(s) - 1)) * 10 + DigitVal(s[Len(s)])

AllAscii(s) == \A i \in 1..Len(s) : s[i] \in AsciiDigits

\* str.split(sep) for a one-character sep
RECURSIVE SplitOn(_, _)
SplitOn(s, sep) ==
    IF \E i \in 1..Len(s) : s[i] = sep
    THEN LET i == CHOOSE k \in 1..Len(s) : s[k] = sep /\ \A j \in 1..(k - 1) : s[j] /= sep
         IN  <<SubSeq(s, 1, i - 1)>> \o SplitOn(SubSeq(s, i + 1, Len(s)), sep)
    ELSE <<s>>

\* Birthday.__init__: datetime.strptime(value, "%d.%m.%Y"); None stands for ValueError
Birthday(value) ==
    LET f == SplitOn(value, ".")
    IN  IF /\ Len(f) = 3
           /\ Len(f[1]) \in 1..2 /\ Len(f[2]) \in 1..2 /\ Len(f[3]) = 4
           /\ AllAscii(f[1]) /\ AllAscii(f[2]) /\ AllAscii(f[3])
           /\ IsDate(ToInt(f[3]), ToInt(f[2]), ToInt(f[1]))
        THEN Some([date |-> [year |-> ToInt(f[3]), month |-> ToInt(f[2]), day |-> ToInt(f[1])],
                   tod |-> Midnight])
        ELSE None

RECURSIVE Pad(_, _)
Pad(n, width) ==
    IF width = 0 THEN <<>>
    ELSE Pad(n \div 10, width - 1) \o <<CHOOSE c \in AsciiDigits : DigitVal(c) = n % 10>>

\* strftime("%d.%m.%Y")
strftime(date) == Pad(date.day, 2) \o <<".">> \o Pad(date.month, 2) \o <<".">> \o Pad(date.year, 4)

OverflowError == "OverflowError"

\* today + timedelta(days=days), as a count of moments; None stands for OverflowError
end_date(today, days) ==
    IF days > MaxTimedeltaDays \/ days < -MaxTimedeltaDays THEN None
    ELSE IF ymd2ord(today.date) + days \notin 1..ymd2ord([year |-> MAXYEAR, month |-> 12, day |-> 31])
    THEN None
    ELSE Some(Timestamp(today) + days * TicksPerDay)

\* one turn of the loop of get_upcoming_birthdays: "raise", "append" or "skip"
upcoming_step(bday, today, endts) ==
    LET this == replace_year(bday, today.date.year)
        next == replace_year(bday, today.date.year + 1)
    IN  IF this = None THEN "raise"
        ELSE IF Timestamp(today) <= Timestamp(this[1]) /\ Timestamp(this[1]) <= endts THEN "append"
        ELSE IF Timestamp(this[1]) < Timestamp(today)
             THEN IF next = None THEN "raise"
                  ELSE IF Timestamp(today) <= Timestamp(next[1]) /\ Timestamp(next[1]) <= endts
                       THEN "append" ELSE "skip"
        ELSE "skip"

\* AddressBook.get_upcoming_birthdays: the ids of the records returned
get_upcoming_birthdays(d, heap, days, today) ==
    LET e == end_date(today, days)
        withBirthday == {n \in DOMAIN d : heap[d[n]].birthday /= None}
        step(n) == upcoming_step(heap[d[n]].birthday[1], today, e[1])
    IN  IF e = None THEN [ret |-> None, raised |-> OverflowError]
        ELSE IF \E n \in withBirthday : step(n) = "raise" THEN [ret |-> None, raised |-> ValueError]
        ELSE [ret |-> Some({d[n] : n \in {m \in withBirthday : step(m) = "append"}}),
              raised |-> NoError]

\* Record.days_to_birthday
days_to_birthday(rec, today) ==
    IF rec.birthday = None THEN [ret |-> None, raised |-> NoError]
    ELSE LET this == replace_year(rec.birthday[1], today.date.year)
             next == replace_year(rec.birthday[1], today.date.year + 1)
         IN  IF this = None THEN [ret |-> None, raised |-> ValueError]
             ELSE IF Timestamp(this[1]) < Timestamp(today)
                  THEN IF next = None THEN [ret |-> None, raised |-> ValueError]
                       ELSE [ret |-> Some((Timestamp(next[1]) - Timestamp(today)) \div TicksPerDay),
                             raised |-> NoError]
             ELSE [ret |-> Some((Timestamp(this[1]) - Timestamp(today)) \div TicksPerDay),
                   raised |-> NoError]

----------------------------------------------------------------------------
(* Specification of the birthday queries *)

\* most contacts the birthday specification creates
MaxContacts == 2

D(d, m, y) == [year |-> y, month |-> m, day |-> d]

\* the (day, month) pairs datetime.today() is drawn from
TodayDayMonths == {<<30, 12>>, <<31, 12>>, <<1, 1>>, <<10, 2>>, <<28, 2>>, <<29, 2>>, <<1, 3>>, <<5, 5>>}

\* the values datetime.today() is drawn from
Clocks ==
    {[date |-> D(dm[1], dm[2], y), tod |-> t] :
        <<dm, y, t>> \in {x \in TodayDayMonths \X (FirstYear..(FirstYear + YearSpan - 1)) \X (0..(TicksPerDay - 1)) :
                            IsDate(x[2], x[1][2], x[1][1])}}

\* the strings passed as birthdays; the last three are no dates
BirthdayArgs ==
    {strftime(D(1, 1, 1990)), strftime(D(5, 5, 1995)), strftime(D(29, 2, 2000)),
     strftime(D(10, 2, 1985)), strftime(D(31, 12, 1999)),
     strftime(D(31, 2, 2000)), <<"1", "9", "9", "0", "-", "0", "1", "-", "0", "1">>, <<>>}

\* the window lengths passed to get_upcoming_birthdays
DaysArgs == {0, 1, 7, 19, 365}

InitBirthday ==
    /\ phones = <<>>
    /\ pre = [phones |-> <<>>, data |-> EmptyBook, pool |-> <<>>]
    /\ call = NoCall
    /\ raised = NoError
    /\ ret = None
    /\ data = EmptyBook
    /\ pool = <<>>
    /\ last = NoHistory
    /\ now \in Clocks
    /\ variant = "none"
    /\ pc = "none"
    /\ nread = 0
    /\ printed = 0

\* record = Record(name); book.add_record(record)
BdayNewContact(name) ==
    /\ Len(pool) < MaxContacts
    /\ name \notin DOMAIN data
    /\ ~NameRejects(name)
    /\ pool' = Append(pool, NewRecord(name))
    /\ data' = add_record(data, name, Len(pool) + 1)
    /\ raised' = NoError
    /\ ret' = None
    /\ pre' = Snapshot
    /\ call' = [op |-> "new_contact", a |-> name, b |-> <<>>]
    /\ UNCHANGED <<phones, last, now, variant, pc, nread, printed>>

\* record.add_birthday(birthday)
BdayAddBirthday(id, birthday) ==
    /\ pool[id].birthday = None
    /\ LET b == Birthday(birthday)
       IN  IF b = None
           THEN raised' = ValueError /\ pool' = pool
           ELSE raised' = NoError /\ pool' = [pool EXCEPT ![id].birthday = b]
    /\ ret' = None
    /\ pre' = Snapshot
    /\ call' = [op |-> "add_birthday", a |-> birthday, b |-> <<id>>]
    /\ UNCHANGED <<phones, data, last, now, variant, pc, nread, printed>>

\* book.get_upcoming_birthdays(days)
BdayGetUpcoming(days) ==
    /\ LET r == get_upcoming_birthdays(data, pool, days, now)
       IN  ret' = r.ret /\ raised' = r.raised
    /\ pre' = Snapshot
    /\ call' = [op |-> "get_upcoming_birthdays", a |-> <<days>>, b |-> <<>>]
    /\ UNCHANGED <<phones, data, pool, last, now, variant, pc, nread, printed>>

\* record.days_to_birthday()
BdayDaysTo(id) ==
    /\ LET r == days_to_birthday(pool[id], now)
       IN  ret' = r.ret /\ raised' = r.raised
    /\ pre' = Snapshot
    /\ call' = [op |-> "days_to_birthday", a |-> <<>>, b |-> <<id>>]
    /\ UNCHANGED <<phones, data, pool, last, now, variant, pc, nread, printed>>

NextBirthday ==
    \/ \E name \in {John, Jane} : BdayNewContact(name)
    \/ \E id \in 1..Len(pool), birthday \in BirthdayArgs : BdayAddBirthday(id, birthday)
    \/ \E days \in DaysArgs : BdayGetUpcoming(days)
    \/ \E id \in 1..Len(pool) : BdayDaysTo(id)

SpecBirthday == InitBirthday /\ [][NextBirthday]_vars

----------------------------------------------------------------------------
(* Claims about the birthday queries *)

Today == ymd2ord(now.date)

\* the day number of the next occurrence of a birthday's month and day on or after
\* today's date: the date in the current year, or in the next year if that is before
\* today; None when a year it is projected onto has no such date
NextOccurrence(bday) ==
    LET m == bday.date.month
        d == bday.date.day
        y == IF <<m, d>> = <<now.date.month, now.date.day>>
                  \/ m > now.date.month
                  \/ (m = now.date.month /\ d > now.date.day)
             THEN now.date.year ELSE now.date.year + 1
    IN  IF IsDate(now.date.year, m, d) /\ IsDate(y, m, d) THEN Some(ymd2ord(D(d, m, y))) ELSE None

InBook == {data[n] : n \in DOMAIN data}

\* C4: get_upcoming_birthdays(days), days >= 0, returns exactly the records whose
\* birthday's next occurrence d has today <= d <= today + days, whatever the time
\* of day (books holding a 29 February birthday with no occurrence are left out).
C4_ClosedWindow ==
    (/\ call.op = "get_upcoming_birthdays"
     /\ call.a[1] >= 0
     /\ \A id \in InBook : pool[id].birthday /= None => NextOccurrence(pool[id].birthday[1]) /= None)
        => /\ raised = NoError
           /\ ret = Some({id \in InBook :
                            /\ pool[id].birthday /= None
                            /\ NextOccurrence(pool[id].birthday[1])[1] \in Today..(Today + call.a[1])})

\* C5: days_to_birthday returns the number of days from today's date to the next
\* occurrence of the birthday on or after today, whatever the time of day (0 on
\* the birthday, 19 for 29.02.2000 on 10.02.2024), and None without a birthday.
C5_DaysToBirthday ==
    call.op = "days_to_birthday" =>
        LET rec == pool[call.b[1]]
        IN  IF rec.birthday = None THEN ret = None /\ raised = NoError
            ELSE NextOccurrence(rec.birthday[1]) /= None =>
                    /\ raised = NoError
                    /\ ret = Some(NextOccurrence(rec.birthday[1])[1] - Today)

----------------------------------------------------------------------------
(* str methods used by the command loops *)

RECURSIVE lstrip(_)
lstrip(s) == IF Len(s) > 0 /\ s[1] \in Whitespace THEN lstrip(Tail(s)) ELSE s

RECURSIVE rstrip(_)
rstrip(s) == IF Len(s) > 0 /\ s[Len(s)] \in Whitespace THEN rstrip(SubSeq(s, 1, Len(s) - 1)) ELSE s

\* str.strip()
strip(s) == rstrip(lstrip(s))

\* the length of the longest prefix of s without whitespace
RECURSIVE WordLen(_)
WordLen(s) == IF Len(s) = 0 \/ s[1] \in Whitespace THEN 0 ELSE 1 + WordLen(Tail(s))

\* str.split(): the words between runs of whitespace
RECURSIVE split(_)
split(s) ==
    LET t == lstrip(s)
    IN  IF Len(t) = 0 THEN <<>>
        ELSE <<SubSeq(t, 1, WordLen(t))>> \o split(SubSeq(t, WordLen(t) + 1, Len(t)))

\* str.split(' ', 1): one element when s holds no space, two otherwise
split_1(s) ==
    IF \E i \in 1..Len(s) : s[i] = " "
    THEN LET i == CHOOSE k \in 1..Len(s) : s[k] = " " /\ \A j \in 1..(k - 1) : s[j] /= " "
         IN  <<SubSeq(s, 1, i - 1), SubSeq(s, i + 1, Len(s))>>
    ELSE <<s>>

\* the upper-case letters the model draws, and their lower case
LowerOf == [c \in {"A", "D", "J"} |-> CASE c = "A" -> "a" [] c = "D" -> "d" [] c = "J" -> "j"]

\* str.lower()
lower(s) == [i \in 1..Len(s) |-> IF s[i] \in DOMAIN LowerOf THEN LowerOf[s[i]] ELSE s[i]]

\* int(s): an optional sign and decimal digits; None stands for ValueError
int(s) ==
    LET signed == Len(s) > 0 /\ s[1] \in {"+", "-"}
        digits == IF signed THEN Tail(s) ELSE s
    IN  IF Len(digits) > 0 /\ AllAscii(digits)
        THEN Some(IF signed /\ s[1] = "-" THEN -ToInt(digits) ELSE ToInt(digits))
        ELSE None

\* ' '.join(words)
RECURSIVE Join(_)
Join(words) ==
    IF Len(words) = 0 THEN <<>>
    ELSE IF Len(words) = 1 THEN words[1]
    ELSE words[1] \o <<" ">> \o Join(Tail(words))

w_add == <<"a", "d", "d">>
w_change == <<"c", "h", "a", "n", "g", "e">>
w_phone == <<"p", "h", "o", "n", "e">>
w_all == <<"a", "l", "l">>
w_hello == <<"h", "e", "l", "l", "o">>
w_exit == <<"e", "x", "i", "t">>
w_close == <<"c", "l", "o", "s", "e">>
w_birthdays == <<"b", "i", "r", "t", "h", "d", "a", "y", "s">>
w_birthday == <<"b", "i", "r", "t", "h", "d", "a", "y">>
w_show == <<"s", "h", "o", "w">>
w_upcoming == <<"u", "p", "c", "o", "m", "i", "n", "g">>
w_add_birthday == <<"a", "d", "d", "-", "b", "i", "r", "t", "h", "d", "a", "y">>
w_show_birthday == <<"s", "h", "o", "w", "-", "b", "i", "r", "t", "h", "d", "a", "y">>
w_ADD == <<"A", "D", "D">>
w_x == <<"x">>
w_7 == <<"7">>
w_billion == <<"1", "0", "0", "0", "0", "0", "0", "0", "0", "0">>

----------------------------------------------------------------------------
(* Command handlers.  A handler's outcome is the book it leaves (data, pool) *)
(* and either the reply it returns (exc = "") or the exception it raises     *)
(* (exc, with msg = str(e)).  Replies that list contacts are named by kind.  *)

PhoneMsg == "Phone number must contain exactly 10 digits."
DateMsg == "Invalid date format. Use DD.MM.YYYY"
NameMsg == "Name cannot be empty."
FewMsg == "not enough values to unpack"
ManyMsg == "too many values to unpack"
IntMsg == "invalid literal for int() with base 10"
RangeMsg == "day is out of range for month"
NotFound == "Contact not found."

Return(d, p, msg) == [data |-> d, pool |-> p, exc |-> NoError, msg |-> msg]
Raise(d, p, exc, msg) == [data |-> d, pool |-> p, exc |-> exc, msg |-> msg]

\* task2 input_error: KeyError, ValueError and IndexError become replies
input_error(r) ==
    IF r.exc = "KeyError" THEN Return(r.data, r.pool, NotFound)
    ELSE IF r.exc = ValueError THEN Return(r.data, r.pool, r.msg)
    ELSE IF r.exc = "IndexError" THEN Return(r.data, r.pool, "Insufficient arguments provided.")
    ELSE r

\* task2 add_contact, undecorated
add_contact_body(args, d, p) ==
    IF Len(args) < 2 THEN Raise(d, p, ValueError, FewMsg)
    ELSE LET name == args[1]
             phone == args[2]
             isNew == find(d, name) = None
         IN  IF isNew /\ NameRejects(name) THEN Raise(d, p, ValueError, NameMsg)
             ELSE LET p1 == IF isNew THEN Append(p, NewRecord(name)) ELSE p
                      d1 == IF isNew THEN add_record(d, name, Len(p) + 1) ELSE d
                      message == IF isNew THEN "Contact added." ELSE "Contact updated."
                      r == add_phone(p1[d1[name]].phones, phone)
                  IN  IF Len(phone) = 0 THEN Return(d1, p1, message)
                      ELSE IF r.raised /= NoError THEN Raise(d1, p1, r.raised, PhoneMsg)
                      ELSE Return(d1, [p1 EXCEPT ![d1[name]].phones = r.phones], message)

\* task2 add_contact
add_contact(args, d, p) == input_error(add_contact_body(args, d, p))

\* task2 change_contact
change_contact(args, d, p) ==
    input_error(
        IF Len(args) < 3 THEN Raise(d, p, ValueError, FewMsg)
        ELSE IF find(d, args[1]) = None THEN Return(d, p, NotFound)
        ELSE LET id == d[args[1]]
                 r == edit_phone(p[id].phones, args[2], args[3])
                 p1 == [p EXCEPT ![id].phones = r.phones]
             IN  IF r.raised /= NoError THEN Raise(d, p1, r.raised, PhoneMsg)
                 ELSE Return(d, p1, "Phone number updated."))

\* task2 show_phone
show_phone(args, d, p) ==
    input_error(
        IF Len(args) < 1 THEN Raise(d, p, ValueError, FewMsg)
        ELSE IF find(d, args[1]) = None THEN Return(d, p, NotFound)
        ELSE Return(d, p, "Phones for"))

\* task2 show_all_contacts
show_all_contacts(args, d, p) == input_error(Return(d, p, "all contacts"))

\* task2 add_birthday
add_birthday(args, d, p) ==
    input_error(
        IF Len(args) < 2 THEN Raise(d, p, ValueError, FewMsg)
        ELSE IF find(d, args[1]) = None THEN Return(d, p, NotFound)
        ELSE IF Birthday(args[2]) = None THEN Raise(d, p, ValueError, DateMsg)
        ELSE Return(d, [p EXCEPT ![d[args[1]]].birthday = Birthday(args[2])], "Birthday added."))

\* task2 show_birthday
show_birthday(args, d, p) ==
    input_error(
        IF Len(args) < 1 THEN Raise(d, p, ValueError, FewMsg)
        ELSE IF find(d, args[1]) = None THEN Return(d, p, NotFound)
        ELSE IF p[d[args[1]]].birthday = None THEN Return(d, p, "No birthday set.")
        ELSE Return(d, p, "Birthday for"))

\* task2 birthdays
birthdays(args, d, p, today) ==
    input_error(
        IF Len(args) = 0 THEN Raise(d, p, "IndexError", "list index out of range")
        ELSE IF int(args[1]) = None THEN Raise(d, p, ValueError, IntMsg)
        ELSE LET r == get_upcoming_birthdays(d, p, int(args[1])[1], today)
             IN  IF r.raised = ValueError THEN Raise(d, p, ValueError, RangeMsg)
                 ELSE IF r.raised /= NoError THEN Raise(d, p, r.raised, "date value out of range")
                 ELSE Return(d, p, "upcoming birthdays"))

\* task2 main, one turn of the loop: the outcome, with printed = TRUE when
\* print() ran and exit = TRUE on break
main_turn(line, d, p, today) ==
    LET parts == split_1(strip(line))
        command == parts[1]
        args == IF Len(parts[2]) > 0 THEN split(parts[2]) ELSE <<>>
        out(r) == r @@ [printed |-> r.exc = NoError, exit |-> FALSE]
    IN  IF Len(parts) /= 2
        THEN Raise(d, p, ValueError, FewMsg) @@ [printed |-> FALSE, exit |-> FALSE]
        ELSE IF command \in {w_close, w_exit}
        THEN Return(d, p, "Good bye!") @@ [printed |-> TRUE, exit |-> TRUE]
        ELSE IF command = w_hello THEN out(Return(d, p, "How can I help you?"))
        ELSE IF command = w_add THEN out(add_contact(args, d, p))
        ELSE IF command = w_change THEN out(change_contact(args, d, p))
        ELSE IF command = w_phone THEN out(show_phone(args, d, p))
        ELSE IF command = w_all THEN out(show_all_contacts(args, d, p))
        ELSE IF command = w_add_birthday THEN out(add_birthday(args, d, p))
        ELSE IF command = w_show_birthday THEN out(show_birthday(args, d, p))
        ELSE IF command = w_birthdays THEN out(birthdays(args, d, p, today))
        ELSE out(Return(d, p, "Invalid command."))

----------------------------------------------------------------------------
(* Bot (task1.py, and the second half of task2.py) *)

\* Bot's input_error
bot_input_error(r) ==
    IF r.exc = "KeyError" THEN Return(r.data, r.pool, "Enter user name.")
    ELSE IF r.exc = ValueError THEN Return(r.data, r.pool, r.msg)
    ELSE IF r.exc = "IndexError" THEN Return(r.data, r.pool, "Give me name and phone please.")
    ELSE r

\* "name, x = args"
Unpack2(args, d, p) == Raise(d, p, ValueError, IF Len(args) < 2 THEN FewMsg ELSE ManyMsg)

\* Bot.add
bot_add(args, d, p) ==
    bot_input_error(
        IF Len(args) /= 2 THEN Unpack2(args, d, p)
        ELSE LET name == args[1]
                 r == add_phone(IF name \in DOMAIN d THEN p[d[name]].phones ELSE <<>>, args[2])
             IN  IF name \in DOMAIN d
                 THEN IF r.raised /= NoError THEN Raise(d, p, r.raised, PhoneMsg)
                      ELSE Return(d, [p EXCEPT ![d[name]].phones = r.phones], "Contact added.")
                 ELSE IF NameRejects(name) THEN Raise(d, p, ValueError, NameMsg)
                 ELSE IF r.raised /= NoError THEN Raise(d, p, r.raised, PhoneMsg)
                 ELSE Return(add_record(d, name, Len(p) + 1),
                             Append(p, [NewRecord(name) EXCEPT !.phones = r.phones]),
                             "Contact added."))

\* Bot.add_birthday
bot_add_birthday(args, d, p) ==
    bot_input_error(
        IF Len(args) /= 2 THEN Unpack2(args, d, p)
        ELSE IF find(d, args[1]) = None THEN Return(d, p, NotFound)
        ELSE IF Birthday(args[2]) = None THEN Raise(d, p, ValueError, DateMsg)
        ELSE Return(d, [p EXCEPT ![d[args[1]]].birthday = Birthday(args[2])], "Birthday added."))

\* Bot.phone
bot_phone(args, d, p) ==
    bot_input_error(
        IF Len(args) = 0 THEN Raise(d, p, "IndexError", "list index out of range")
        ELSE IF find(d, args[1]) = None THEN Return(d, p, NotFound)
        ELSE Return(d, p, "Phones for"))

\* Bot.show_all
bot_show_all(args, d, p) == bot_input_error(Return(d, p, "all contacts"))

\* Bot.upcoming_birthdays
bot_upcoming_birthdays(args, d, p, today) ==
    bot_input_error(
        IF Len(args) = 0 THEN Raise(d, p, "IndexError", "list index out of range")
        ELSE IF int(args[1]) = None THEN Raise(d, p, ValueError, IntMsg)
        ELSE LET r == get_upcoming_birthdays(d, p, int(args[1])[1], today)
             IN  IF r.raised = ValueError THEN Raise(d, p, ValueError, RangeMsg)
                 ELSE IF r.raised /= NoError THEN Raise(d, p, r.raised, "date value out of range")
                 ELSE Return(d, p, "upcoming birthdays"))

\* Bot.handle_command
handle_command(command_line, d, p, today) ==
    LET command_parts == split(command_line)
        command == lower(command_parts[1])
        args == Tail(command_parts)
    IN  IF Len(command_parts) = 0 THEN Raise(d, p, "IndexError", "list index out of range")
        ELSE IF command = w_add THEN bot_add(args, d, p)
        ELSE IF command = w_birthday THEN bot_add_birthday(args, d, p)
        ELSE IF command = w_phone THEN bot_phone(args, d, p)
        ELSE IF command = w_show THEN bot_show_all(args, d, p)
        ELSE IF command = w_upcoming THEN bot_upcoming_birthdays(args, d, p, today)
        ELSE IF command \in {w_exit, w_close} THEN Return(d, p, "Goodbye!")
        ELSE Return(d, p, "Unknown command.")

\* Bot's main, one turn of the loop
bot_main_turn(line, d, p, today) ==
    LET r == handle_command(line, d, p, today)
    IN  r @@ [printed |-> r.exc = NoError, exit |-> r.exc = NoError /\ r.msg = "Goodbye!"]

----------------------------------------------------------------------------
(* Specification of the command loops *)

\* most lines one run of a command loop reads
MaxLines == 3

B2000 == strftime(D(29, 2, 2000))

\* the input lines
Lines ==
    {<<>>, w_hello, w_all, w_exit, <<" ">>,
     Join(<<w_close, w_x>>),
     Join(<<w_add, John, P1>>), Join(<<w_add, John, PShort>>), Join(<<w_add, John>>),
     Join(<<w_add, John, P1, w_x>>), Join(<<w_ADD, Jane, P2>>),
     Join(<<w_change, John, P1, P2>>), Join(<<w_change, John, P1, PShort>>),
     Join(<<w_phone, John>>), Join(<<w_show, w_x>>), Join(<<w_show_birthday, John>>),
     Join(<<w_add_birthday, John, B2000>>), Join(<<w_add_birthday, John, strftime(D(31, 2, 2000))>>),
     Join(<<w_birthday, John, B2000>>),
     Join(<<w_birthdays, w_7>>), Join(<<w_birthdays, w_x>>), Join(<<w_birthdays, w_billion>>),
     Join(<<w_upcoming, w_7>>), Join(<<w_upcoming, w_billion>>)}

\* the values of datetime.today() during a run of a command loop
ShellClocks == {[Epoch EXCEPT !.tod = 1], [date |-> D(1, 3, 2023), tod |-> 1]}

InitShell ==
    /\ phones = <<>>
    /\ pre = [phones |-> <<>>, data |-> EmptyBook, pool |-> <<>>]
    /\ call = NoCall
    /\ raised = NoError
    /\ ret = None
    /\ data = EmptyBook
    /\ pool = <<>>
    /\ last = NoHistory
    /\ now \in ShellClocks
    /\ variant \in {"task1", "task2"}
    /\ pc = "read"
    /\ nread = 0
    /\ printed = 0

\* what one turn of a loop leaves
Turn(line, r) ==
    /\ data' = r.data
    /\ pool' = r.pool
    /\ raised' = r.exc
    /\ ret' = (IF r.exc = NoError THEN Some(r.msg) ELSE None)
    /\ nread' = nread + 1
    /\ printed' = (IF r.printed THEN printed + 1 ELSE printed)
    /\ pc' = (IF r.exc /= NoError THEN "crashed" ELSE IF r.exit THEN "exited" ELSE "read")
    /\ pre' = Snapshot
    /\ call' = [op |-> "input", a |-> line, b |-> <<>>]
    /\ UNCHANGED <<phones, last, now, variant>>

\* task2 main: input(), dispatch, print
Task2Turn(line) ==
    /\ variant = "task2"
    /\ pc = "read"
    /\ nread < MaxLines
    /\ Turn(line, main_turn(line, data, pool, now))

\* Bot's main: input(), handle_command, print
BotTurn(line) ==
    /\ variant = "task1"
    /\ pc = "read"
    /\ nread < MaxLines
    /\ Turn(line, bot_main_turn(line, data, pool, now))

NextShell ==
    \/ \E line \in Lines : Task2Turn(line)
    \/ \E line \in Lines : BotTurn(line)

SpecShell == InitShell /\ [][NextShell]_vars

----------------------------------------------------------------------------
(* Claims about the command loops *)

\* the first word of the last line read
LastCommand == IF Len(split(call.a)) = 0 THEN <<>> ELSE split(call.a)[1]

\* C9: no input line is fatal: every line read gets exactly one printed reply and
\* the loop reads on; it ends only on an exit or close command.
C9_NoLineIsFatal ==
    /\ pc \in {"read", "exited"}
    /\ printed = nread
    /\ pc = "exited" => lower(LastCommand) \in {w_exit, w_close}

\* C10: add_contact([name, phone], book) with a name not in the book and an invalid
\* phone returns the phone validation message and leaves the set of names as it
\* was; so every contact of a book filled by add_contact has a phone.
C10_FailedAddChangesNothing ==
    variant = "task2" =>
        /\ (/\ call.op = "input"
            /\ pc /= "crashed"
            /\ LastCommand = w_add
            /\ Len(split(call.a)) >= 3
            /\ split(call.a)[2] \notin DOMAIN pre.data
            /\ ~validate_phone(split(call.a)[3]))
              => (ret = Some(PhoneMsg) /\ DOMAIN data = DOMAIN pre.data)
        /\ \A n \in DOMAIN data : Len(pool[data[n]].phones) >= 1

====
